---------------------------- MODULE Spec2Model ----------------------------
(***************************************************************************)
(* A model of the CHIP-8 virtual machine of src/main.py: the Chip8 object  *)
(* (memory, registers, stack, timers, display, keypad, key-wait state),    *)
(* its emulate_cycle / execute_opcode methods, and the driver of           *)
(* Chip8Emulator (load_rom, then handle_input and emulate_cycle in turn).  *)
(***************************************************************************)
EXTENDS Integers, Sequences, FiniteSets, TLC

(***************************************************************************)
(* Sizes fixed by the program.                                             *)
(***************************************************************************)
MemSize == 4096
NumRegs == 16
NumKeys == 16
Rows == 32
Cols == 64
RomBase == 512
NoOpcode == -1

(***************************************************************************)
(* Bounds of the model: how many host keys the user may hold at once, and  *)
(* how deep the call stack may grow before the model stops following a     *)
(* run.                                                                    *)
(***************************************************************************)
MaxHeld == 2
MaxStack == 3

VARIABLES memory, V, I, pc, stack, delay_timer, sound_timer, display,
          keypad, waiting_for_key, key_register, opcode, error, keys, run_pc

vars == <<memory, V, I, pc, stack, delay_timer, sound_timer, display,
          keypad, waiting_for_key, key_register, opcode, error, keys, run_pc>>

(***************************************************************************)
(* The font set, as a sequence of 80 bytes.                                *)
(***************************************************************************)
fontset ==
    << 240, 144, 144, 144, 240,   32,  96,  32,  32, 112,
       240,  16, 240, 128, 240,  240,  16, 240,  16, 240,
       144, 144, 240,  16,  16,  240, 128, 240,  16, 240,
       240, 128, 240, 144, 240,  240,  16,  32,  64,  64,
       240, 144, 240, 144, 240,  240, 144, 240,  16, 240,
       240, 144, 240, 144, 144,  224, 144, 224, 144, 224,
       240, 128, 128, 128, 240,  224, 144, 144, 144, 224,
       240, 128, 240, 128, 240,  240, 128, 240, 128, 128 >>

(***************************************************************************)
(* key_mappings: the keypad index of each host key, in the order the       *)
(* dictionary enumerates them (1 2 3 4, Q W E R, A S D F, Z X C V).        *)
(***************************************************************************)
key_mappings == << 1, 2, 3, 12,  4, 5, 6, 13,  7, 8, 9, 14,  10, 0, 11, 15 >>

(***************************************************************************)
(* The Chip8 object as a record: the value of the state variables.         *)
(***************************************************************************)
Self ==
    [ memory |-> memory, V |-> V, I |-> I, pc |-> pc, stack |-> stack,
      delay_timer |-> delay_timer, sound_timer |-> sound_timer,
      display |-> display, keypad |-> keypad,
      waiting_for_key |-> waiting_for_key, key_register |-> key_register,
      opcode |-> opcode, error |-> error ]

(***************************************************************************)
(* Chip8.__init__                                                          *)
(***************************************************************************)
Chip8Init ==
    [ memory |-> [a \in 0..(MemSize - 1) |->
                     IF a < Len(fontset) THEN fontset[a + 1] ELSE 0],
      V |-> [r \in 0..(NumRegs - 1) |-> 0],
      I |-> 0,
      pc |-> RomBase,
      stack |-> << >>,
      delay_timer |-> 0,
      sound_timer |-> 0,
      display |-> [y \in 0..(Rows - 1) |-> [x \in 0..(Cols - 1) |-> 0]],
      keypad |-> [k \in 0..(NumKeys - 1) |-> 0],
      waiting_for_key |-> FALSE,
      key_register |-> 0,
      opcode |-> NoOpcode,
      error |-> "none" ]

(***************************************************************************)
(* Bit operations of the code, on naturals.                                *)
(***************************************************************************)
Pow2(k) == 2 ^ k

\* sprite_row & (0x80 >> col) is non-zero
SpriteBit(sprite_row, col) == (sprite_row \div Pow2(7 - col)) % 2 = 1

Xor1_Increment(p) == p + 1

\* p ^ 1 on a uint8
Xor1(p) == IF p % 2 = 0 THEN p + 1 ELSE p - 1

(***************************************************************************)
(* Dxyn, lines 118-135.  The inner loop over the columns of one sprite row *)
(* and the outer loop over the rows; a read of memory[I + row] beyond the  *)
(* bytearray raises IndexError and leaves what was drawn so far.           *)
(***************************************************************************)
RECURSIVE DrawCols_Overwrite(_, _, _, _, _)
DrawCols_Overwrite(s, sprite_row, y, x_coord, col) ==
    IF col >= 8 \/ x_coord + col >= Cols
    THEN s
    ELSE IF SpriteBit(sprite_row, col)
         THEN LET hit == s.display[y][x_coord + col] # 0
                  s1 == IF hit THEN [s EXCEPT !.V[15] = 1] ELSE s
                  s2 == [s1 EXCEPT !.display[y][x_coord + col] = 1]
              IN  DrawCols_Overwrite(s2, sprite_row, y, x_coord, col + 1)
         ELSE DrawCols_Overwrite(s, sprite_row, y, x_coord, col + 1)

RECURSIVE DrawCols_TestAfterToggle(_, _, _, _, _)
DrawCols_TestAfterToggle(s, sprite_row, y, x_coord, col) ==
    IF col >= 8 \/ x_coord + col >= Cols
    THEN s
    ELSE IF SpriteBit(sprite_row, col)
         THEN LET s1 == [s EXCEPT !.display[y][x_coord + col] = Xor1(@)]
                  hit == s1.display[y][x_coord + col] # 0
                  s2 == IF hit THEN [s1 EXCEPT !.V[15] = 1] ELSE s1
              IN  DrawCols_TestAfterToggle(s2, sprite_row, y, x_coord, col + 1)
         ELSE DrawCols_TestAfterToggle(s, sprite_row, y, x_coord, col + 1)

RECURSIVE DrawCols_Wrap(_, _, _, _, _)
DrawCols_Wrap(s, sprite_row, y, x_coord, col) ==
    IF col >= 8
    THEN s
    ELSE IF SpriteBit(sprite_row, col)
         THEN LET xw == (x_coord + col) % Cols
                  hit == s.display[y][xw] # 0
                  s1 == IF hit THEN [s EXCEPT !.V[15] = 1] ELSE s
                  s2 == [s1 EXCEPT !.display[y][xw] = Xor1(@)]
              IN  DrawCols_Wrap(s2, sprite_row, y, x_coord, col + 1)
         ELSE DrawCols_Wrap(s, sprite_row, y, x_coord, col + 1)

RECURSIVE DrawCols(_, _, _, _, _)
DrawCols(s, sprite_row, y, x_coord, col) ==
    IF col >= 8 \/ x_coord + col >= Cols
    THEN s
    ELSE IF SpriteBit(sprite_row, col)
         THEN LET hit == s.display[y][x_coord + col] # 0
                  s1 == IF hit THEN [s EXCEPT !.V[15] = 1] ELSE s
                  s2 == [s1 EXCEPT !.display[y][x_coord + col] = Xor1(@)]
              IN  DrawCols(s2, sprite_row, y, x_coord, col + 1)
         ELSE DrawCols(s, sprite_row, y, x_coord, col + 1)

RECURSIVE DrawRows(_, _, _, _, _)
DrawRows(s, n, x_coord, y_coord, row) ==
    IF row >= n \/ y_coord + row >= Rows
    THEN s
    ELSE IF s.I + row >= MemSize
         THEN [s EXCEPT !.error = "IndexError"]
         ELSE DrawRows(DrawCols(s, s.memory[s.I + row], y_coord + row, x_coord, 0),
                       n, x_coord, y_coord, row + 1)

DrawSprite_ResetFirst(s, x, y, n) ==
    LET s0 == [s EXCEPT !.V[15] = 0]
        x_coord == s0.V[x] % Cols
        y_coord == s0.V[y] % Rows
    IN  DrawRows(s0, n, x_coord, y_coord, 0)

DrawSprite(s, x, y, n) ==
    LET x_coord == s.V[x] % Cols
        y_coord == s.V[y] % Rows
    IN  DrawRows([s EXCEPT !.V[15] = 0], n, x_coord, y_coord, 0)

(***************************************************************************)
(* execute_opcode, lines 64-135, applied to the state s in which pc has    *)
(* already been advanced.                                                  *)
(***************************************************************************)
Op_x(op) == (op \div 256) % 16
Op_y(op) == (op \div 16) % 16
Op_nnn(op) == op % 4096
Op_nn(op) == op % 256
Op_n(op) == op % 16
Op_top(op) == op \div 4096

Return_InventAddress(s) ==
    IF Len(s.stack) = 0
    THEN [s EXCEPT !.pc = RomBase]
    ELSE [s EXCEPT !.pc = s.stack[Len(s.stack)],
                   !.stack = SubSeq(s.stack, 1, Len(s.stack) - 1)]

Return(s) ==
    IF Len(s.stack) = 0
    THEN [s EXCEPT !.error = "IndexError"]
    ELSE [s EXCEPT !.pc = s.stack[Len(s.stack)],
                   !.stack = SubSeq(s.stack, 1, Len(s.stack) - 1)]

Call_PushCallAddress(s, nnn) ==
    [s EXCEPT !.stack = Append(s.stack, s.pc - 2), !.pc = nnn]

Call(s, nnn) == [s EXCEPT !.stack = Append(s.stack, s.pc), !.pc = nnn]

SkipIfKey_BothWhenHeld(s, x, nn) ==
    IF nn = \H9E \/ nn = \HA1
    THEN IF s.V[x] >= NumKeys THEN [s EXCEPT !.error = "IndexError"]
         ELSE IF s.keypad[s.V[x]] # 0 THEN [s EXCEPT !.pc = s.pc + 2] ELSE s
    ELSE s

SkipIfKey_OneByte(s, x, nn) ==
    IF nn = \H9E
    THEN IF s.V[x] >= NumKeys THEN [s EXCEPT !.error = "IndexError"]
         ELSE IF s.keypad[s.V[x]] # 0 THEN [s EXCEPT !.pc = s.pc + 1] ELSE s
    ELSE IF nn = \HA1
    THEN IF s.V[x] >= NumKeys THEN [s EXCEPT !.error = "IndexError"]
         ELSE IF s.keypad[s.V[x]] = 0 THEN [s EXCEPT !.pc = s.pc + 1] ELSE s
    ELSE s

SkipIfKey_MaskIndex(s, x, nn) ==
    IF nn = \H9E
    THEN IF s.keypad[s.V[x] % NumKeys] # 0 THEN [s EXCEPT !.pc = s.pc + 2] ELSE s
    ELSE IF nn = \HA1
    THEN IF s.keypad[s.V[x] % NumKeys] = 0 THEN [s EXCEPT !.pc = s.pc + 2] ELSE s
    ELSE s

SkipIfKey(s, x, nn) ==
    IF nn = \H9E
    THEN IF s.V[x] >= NumKeys THEN [s EXCEPT !.error = "IndexError"]
         ELSE IF s.keypad[s.V[x]] # 0 THEN [s EXCEPT !.pc = s.pc + 2] ELSE s
    ELSE IF nn = \HA1
    THEN IF s.V[x] >= NumKeys THEN [s EXCEPT !.error = "IndexError"]
         ELSE IF s.keypad[s.V[x]] = 0 THEN [s EXCEPT !.pc = s.pc + 2] ELSE s
    ELSE s

MiscF_AddToI(s, x, nn) ==
    IF nn = \H0A THEN [s EXCEPT !.waiting_for_key = TRUE, !.key_register = x]
    ELSE IF nn = \H15 THEN [s EXCEPT !.delay_timer = s.V[x]]
    ELSE IF nn = \H18 THEN [s EXCEPT !.sound_timer = s.V[x]]
    ELSE IF nn = \H07 THEN [s EXCEPT !.V[x] = s.delay_timer]
    ELSE IF nn = \H1E THEN [s EXCEPT !.I = s.I + s.V[x]]
    ELSE s

MiscF_StoreRegisters(s, x, nn) ==
    IF nn = \H0A THEN [s EXCEPT !.waiting_for_key = TRUE, !.key_register = x]
    ELSE IF nn = \H15 THEN [s EXCEPT !.delay_timer = s.V[x]]
    ELSE IF nn = \H18 THEN [s EXCEPT !.sound_timer = s.V[x]]
    ELSE IF nn = \H07 THEN [s EXCEPT !.V[x] = s.delay_timer]
    ELSE IF nn = \H55
    THEN [s EXCEPT !.memory = [a \in 0..(MemSize - 1) |->
                                  IF a >= s.I /\ a <= s.I + x
                                  THEN s.V[a - s.I] ELSE s.memory[a]]]
    ELSE s

MiscF(s, x, nn) ==
    IF nn = \H0A THEN [s EXCEPT !.waiting_for_key = TRUE, !.key_register = x]
    ELSE IF nn = \H15 THEN [s EXCEPT !.delay_timer = s.V[x]]
    ELSE IF nn = \H18 THEN [s EXCEPT !.sound_timer = s.V[x]]
    ELSE IF nn = \H07 THEN [s EXCEPT !.V[x] = s.delay_timer]
    ELSE s

AddImmediate_WithCarry(s, x, nn) ==
    [s EXCEPT !.V = [[s.V EXCEPT ![15] = IF s.V[x] + nn > 255 THEN 1 ELSE 0]
                        EXCEPT ![x] = (s.V[x] + nn) % 256]]

\* 7xnn, lines 92-93
AddImmediate(s, x, nn) == [s EXCEPT !.V[x] = (s.V[x] + nn) % 256]

execute_opcode(s, op) ==
    LET x == Op_x(op)
        y == Op_y(op)
        nnn == Op_nnn(op)
        nn == Op_nn(op)
        n == Op_n(op)
        top == Op_top(op)
    IN  IF top = 0 THEN
            IF op = \H00E0
            THEN [s EXCEPT !.display = [r \in 0..(Rows - 1) |-> [c \in 0..(Cols - 1) |-> 0]]]
            ELSE IF op = \H00EE THEN Return(s)
            ELSE s
        ELSE IF top = 1 THEN [s EXCEPT !.pc = nnn]
        ELSE IF top = 2 THEN Call(s, nnn)
        ELSE IF top = 3 THEN
            IF s.V[x] = nn THEN [s EXCEPT !.pc = s.pc + 2] ELSE s
        ELSE IF top = 6 THEN [s EXCEPT !.V[x] = nn]
        ELSE IF top = 7 THEN AddImmediate(s, x, nn)
        ELSE IF top = \HA THEN [s EXCEPT !.I = nnn]
        ELSE IF top = \HE THEN SkipIfKey(s, x, nn)
        ELSE IF top = \HF THEN MiscF(s, x, nn)
        ELSE IF top = \HD THEN DrawSprite(s, x, y, n)
        ELSE s

(***************************************************************************)
(* emulate_cycle, lines 50-62.                                             *)
(***************************************************************************)
DecTimers_Unguarded(s) ==
    [s EXCEPT !.delay_timer = @ - 1, !.sound_timer = @ - 1]

DecTimers(s) ==
    [s EXCEPT !.delay_timer = IF @ > 0 THEN @ - 1 ELSE @,
              !.sound_timer = IF @ > 0 THEN @ - 1 ELSE @]

\* (self.memory[a] << 8) | self.memory[a + 1]
FetchAt(mem, a) == mem[a] * 256 + mem[a + 1]

FetchExecute_TimersFirst(s) ==
    IF s.pc + 1 >= MemSize
    THEN [s EXCEPT !.error = "IndexError"]
    ELSE LET op == FetchAt(s.memory, s.pc)
             s1 == DecTimers([s EXCEPT !.opcode = op, !.pc = s.pc + 2])
         IN  execute_opcode(s1, op)

\* lines 55-62: the cycle of a machine that is not waiting for a key
FetchExecute(s) ==
    IF s.pc + 1 >= MemSize
    THEN [s EXCEPT !.error = "IndexError"]
    ELSE LET op == FetchAt(s.memory, s.pc)
             s1 == [s EXCEPT !.opcode = op, !.pc = s.pc + 2]
             s2 == execute_opcode(s1, op)
         IN  IF s2.error # "none" THEN s2 ELSE DecTimers(s2)

emulate_cycle_Unsuspended(s) == FetchExecute(s)

emulate_cycle_OneShotWait(s) ==
    IF s.waiting_for_key
    THEN [s EXCEPT !.waiting_for_key = FALSE]
    ELSE FetchExecute(s)

emulate_cycle(s) ==
    IF s.waiting_for_key
    THEN s
    ELSE FetchExecute(s)

(***************************************************************************)
(* handle_input, lines 164-178: held is the set of host keys that          *)
(* get_pressed() reports, each named by its position in key_mappings.      *)
(***************************************************************************)
RECURSIVE ScanKeys(_, _, _)
ScanKeys(s, held, i) ==
    IF i > Len(key_mappings)
    THEN s
    ELSE IF i \in held
         THEN LET value == key_mappings[i]
                  s1 == [s EXCEPT !.keypad[value] = 1]
                  s2 == IF s1.waiting_for_key
                        THEN [s1 EXCEPT !.V[s1.key_register] = value,
                                        !.waiting_for_key = FALSE]
                        ELSE s1
              IN  ScanKeys(s2, held, i + 1)
         ELSE ScanKeys(s, held, i + 1)

handle_input_LowestIndex(s, held) ==
    LET values == { key_mappings[i] : i \in held }
        lowest == CHOOSE v \in values : \A w \in values : v <= w
        s1 == [s EXCEPT !.keypad = [k \in 0..(NumKeys - 1) |->
                                       IF k \in values THEN 1 ELSE 0]]
    IN  IF s.waiting_for_key /\ values # {}
        THEN [s1 EXCEPT !.V[s.key_register] = lowest, !.waiting_for_key = FALSE]
        ELSE s1

handle_input(s, held) ==
    ScanKeys([s EXCEPT !.keypad = [k \in 0..(NumKeys - 1) |-> 0]], held, 1)

(***************************************************************************)
(* load_rom, lines 44-48: the bytes of the ROM file are copied to 0x200    *)
(* onwards; a byte that lands beyond the bytearray raises IndexError.      *)
(***************************************************************************)
load_rom(s, rom_data) ==
    LET room == MemSize - RomBase
        copied == IF Len(rom_data) <= room THEN Len(rom_data) ELSE room
    IN  [s EXCEPT !.memory = [a \in 0..(MemSize - 1) |->
                                 IF a >= RomBase /\ a - RomBase < copied
                                 THEN rom_data[a - RomBase + 1]
                                 ELSE s.memory[a]],
                  !.error = IF Len(rom_data) <= room THEN "none" ELSE "IndexError"]

(***************************************************************************)
(* The ROM files the model loads.  A ROM is written as its 16-bit words    *)
(* and turned into the byte sequence that f.read() returns.                *)
(***************************************************************************)
Bytes(words) ==
    [i \in 1..(2 * Len(words)) |->
        IF i % 2 = 1 THEN words[(i + 1) \div 2] \div 256
                     ELSE words[i \div 2] % 256]

\* Fx0A followed by further instructions, also inside a subroutine; every
\* ROM ends in a jump to itself.
KeyWaitRoms ==
    { << \HF30A, \H7301, \H1204 >>,
      << \H6003, \HF015, \HF018, \HF10A, \HF207, \H120A >>,
      << \HF00A, \HF10A, \H1204 >>,
      << \H6E07, \HFF0A, \H6E09, \H1206 >>,
      << \HA000, \H2208, \H2208, \H1206, \HF50A, \H00EE >> }

\* 3xnn, Ex9E, ExA1, also with V[x] beyond the keypad.
SkipRoms ==
    { << \H6210, \H3210, \H6301, \H3211, \H6401, \H120A >>,
      << \H6001, \HE09E, \H6101, \HE0A1, \H6201, \H120A >>,
      << \H630C, \HE39E, \H1206, \HE3A1, \H1206, \H120A >>,
      << \H6010, \HE09E, \H1204 >>,
      << \H60FF, \HE0A1, \H1204 >>,
      << \H6109, \HF115, \HF118, \H6004, \HE09E, \H7201, \HE0A1, \H7201,
         \H3004, \H7201, \H3005, \H7201, \H1218 >>,
      << \H6010, \HF015, \HE09E, \H1206 >>,
      << \H60FF, \HF018, \HE0A1, \H1206 >> }

\* Fx15, Fx18, Fx07 and the per-cycle decrement.
TimerRoms ==
    { << \H6002, \HF015, \HF118, \HF207, \HF307, \H120A >>,
      << \H60FF, \HF015, \HF018, \HF107, \H00EE >>,
      << \H6001, \HF018, \HF015, \H1206 >> }

\* 6xnn, 7xnn and opcodes outside the table.
ArithRoms ==
    { << \H60FF, \H7001, \H7FFF, \H7F02, \H6A80, \H7A80, \H120C >>,
      << \H0123, \H4005, \H5010, \H8014, \H9010, \HB300, \HC0FF,
         \HE000, \HF033, \HF055, \HF01E, \H1216 >>,
      << \H6009, \HF015, \HF018, \H8014, \HF01E, \HE0A2, \H0230, \H120E >> }

\* 1nnn, 2nnn, 00EE.
CallRoms ==
    { << \H2206, \H1202, \H0000, \H6001, \H00EE >>,
      << \H2206, \H1202, \H0000, \H220A, \H00EE, \H6001, \H00EE >>,
      << \H2204, \H00EE, \H00EE >>,
      << \H2206, \H2206, \H1204, \H7001, \H00EE >>,
      << \H2200 >>,
      << \H00EE >>,
      << \H1201, \H1212 >>,
      << \H1FFF >>,
      << \H1FFE >> }

\* Dxyn: a first sprite at the origin, then the same sprite twice at
\* (vx, vy), n rows from address addr; the ROM carries two sprite rows of
\* its own at 0x210.
DrawRom(vx, vy, addr, n) ==
    << \HA000, \HD225, 1536 * 16 + vx, 1552 * 16 + vy, 40960 + addr,
       \HD010 + n, \HD010 + n, \H120E, \HFF81, \H7E00 >>

DrawRoms ==
    { DrawRom(vx, vy, addr, n) :
        vx \in {0, 2, 60, 124}, vy \in {0, 30}, addr \in {0, \H210}, n \in {0, 2, 5} }
    \cup
    { << \H6005, \HA005, \HD005, \HD005, \H00E0, \H1208 >>,
      << \H6F05, \HA000, \HDF05, \HDF05, \H1208 >>,
      << \H6F01, \HA000, \HD0F5, \HD0F5, \H1208 >>,
      << \H611F, \HAFFF, \HD012, \HD012, \H1208 >>,
      << \HA300, \HD00F, \HD00F, \H1206 >>,
      << \H6F01, \HAFFF, \HD002, \H1206 >>,
      << \H603C, \H611E, \HA000, \HD014, \HD01F, \H120A >>,
      << \H6103, \HF115, \HA000, \HD005, \HF50A, \HD505, \H120C >>,
      << \HA000, \HD005, \H00E0, \H1206 >>,
      << \H6F03, \HFF15, \HAFFF, \HD002, \H1208 >> }

\* A ROM that fills the memory to its last byte, with two sprite rows at the
\* top (0xFFE, 0xFFF), and one that is a byte too long.
FullRom ==
    [i \in 1..(MemSize - RomBase) |->
        IF i <= 8 THEN Bytes(<< \HAFFE, \HD003, \H6F01, \H1206 >>)[i]
        ELSE IF i > MemSize - RomBase - 2 THEN \HFF ELSE 0]

Roms ==
    { Bytes(w) : w \in KeyWaitRoms \cup SkipRoms \cup TimerRoms \cup ArithRoms
                       \cup CallRoms \cup DrawRoms }
    \cup { FullRom, FullRom \o << 0 >> }

(***************************************************************************)
(* The sets of host keys pygame.key.get_pressed() may report as held: up   *)
(* to MaxHeld of the keys 1, 4, Q and X (keypad 1, C, 4 and 0), named by   *)
(* their positions in key_mappings.                                        *)
(***************************************************************************)
HostKeys == {1, 4, 5, 14}

RECURSIVE HeldUpTo(_)
HeldUpTo(k) ==
    IF k = 0 THEN { {} }
    ELSE LET P == HeldUpTo(k - 1) IN P \cup { S \cup {h} : S \in P, h \in HostKeys }

HeldSets == HeldUpTo(MaxHeld)

(***************************************************************************)
(* The state machine: Chip8Emulator.run, lines 180-204.                    *)
(***************************************************************************)
Store(s) ==
    /\ memory' = s.memory
    /\ V' = s.V
    /\ I' = s.I
    /\ pc' = s.pc
    /\ stack' = s.stack
    /\ delay_timer' = s.delay_timer
    /\ sound_timer' = s.sound_timer
    /\ display' = s.display
    /\ keypad' = s.keypad
    /\ waiting_for_key' = s.waiting_for_key
    /\ key_register' = s.key_register
    /\ opcode' = s.opcode
    /\ error' = s.error

Init ==
    /\ memory = Chip8Init.memory
    /\ V = Chip8Init.V
    /\ I = Chip8Init.I
    /\ pc = Chip8Init.pc
    /\ stack = Chip8Init.stack
    /\ delay_timer = Chip8Init.delay_timer
    /\ sound_timer = Chip8Init.sound_timer
    /\ display = Chip8Init.display
    /\ keypad = Chip8Init.keypad
    /\ waiting_for_key = Chip8Init.waiting_for_key
    /\ key_register = Chip8Init.key_register
    /\ opcode = Chip8Init.opcode
    /\ error = Chip8Init.error
    /\ keys = {}
    /\ run_pc = "load"

LoadRom(roms) ==
    /\ run_pc = "load"
    /\ \E rom_data \in roms :
          LET s == load_rom(Self, rom_data)
          IN  /\ Store(s)
              /\ run_pc' = IF s.error = "none" THEN "input" ELSE "crashed"
    /\ UNCHANGED keys

HandleInput ==
    /\ run_pc = "input"
    /\ \E held \in HeldSets :
          /\ keys' = held
          /\ Store(handle_input(Self, held))
    /\ run_pc' = "cycle"

EmulateCycle ==
    /\ run_pc = "cycle"
    /\ Len(stack) <= MaxStack
    /\ LET s == emulate_cycle(Self)
       IN  /\ Store(s)
           /\ run_pc' = IF s.error = "none" THEN "input" ELSE "crashed"
    /\ UNCHANGED keys

Next == LoadRom(Roms) \/ HandleInput \/ EmulateCycle

Spec == Init /\ [][Next]_vars

\* The driver on the ROMs that wait for a key.  Nothing between handle_input
\* and emulate_cycle in the loop of run() can block (lines 190-193), so a
\* cycle that is due is eventually run.
KeyWaitNext == LoadRom({ Bytes(w) : w \in KeyWaitRoms }) \/ HandleInput \/ EmulateCycle

KeyWaitSpec == Init /\ [][KeyWaitNext]_vars /\ WF_vars(EmulateCycle)

(***************************************************************************)
(* Properties.                                                             *)
(***************************************************************************)
IsKeyWait(op) == op >= 0 /\ Op_top(op) = \HF /\ Op_nn(op) = \H0A
IsDraw(op) == op >= 0 /\ Op_top(op) = \HD
IsCall(op) == op >= 0 /\ Op_top(op) = \H2

\* The first host key held, in the enumeration order of key_mappings.
FirstHeld(held) == CHOOSE i \in held : \A j \in held : i <= j

\* C1: the cycle that executes Fx0A suspends the machine with key_register = x;
\* every emulate_cycle of a suspended machine fetches nothing and leaves pc, V,
\* I, the stack, the display, the memory and both timers as they were; a
\* refresh that sees no key leaves the machine suspended; and the first cycle
\* after the refresh that saw a key fetches and executes the instruction that
\* follows the Fx0A.
C1_Step ==
    /\ (run_pc = "cycle" /\ ~waiting_for_key /\ run_pc' = "input" /\ IsKeyWait(opcode'))
          => /\ waiting_for_key'
             /\ key_register' = Op_x(opcode')
             /\ opcode' = FetchAt(memory, pc)
             /\ pc' = pc + 2
    /\ (run_pc = "cycle" /\ waiting_for_key)
          => /\ UNCHANGED <<opcode, pc, V, I, stack, display, memory,
                            delay_timer, sound_timer>>
             /\ error' = "none"
    /\ (run_pc = "input" /\ waiting_for_key /\ keys' = {}) => waiting_for_key'
    /\ (run_pc = "cycle" /\ ~waiting_for_key /\ IsKeyWait(opcode) /\ run_pc' = "input")
          => /\ FetchAt(memory, pc - 2) = opcode
             /\ opcode' = FetchAt(memory, pc)
             /\ Self' = FetchExecute(Self)

C1_KeyWaitSuspends == [][C1_Step]_vars

\* The machine was suspended by the F30A at 0x200, key C resolved the wait and
\* the 7301 that follows has been executed.
C1_Witness ==
    /\ run_pc = "input"
    /\ opcode = \H7301
    /\ FetchAt(memory, \H200) = \HF30A
    /\ pc = \H204
    /\ V[3] = 13
    /\ ~waiting_for_key

\* C2: a refresh of a suspended machine that reports at least one held key
\* writes the keypad index of the first held key, in the enumeration order of
\* key_mappings, into V[key_register], clears waiting_for_key and changes no
\* other register; every held key is recorded in the keypad.
C2_Step ==
    (run_pc = "input" /\ waiting_for_key /\ keys' # {})
       => /\ V' = [V EXCEPT ![key_register] = key_mappings[FirstHeld(keys')]]
          /\ ~waiting_for_key'
          /\ keypad' = [k \in 0..(NumKeys - 1) |->
                           IF \E i \in keys' : key_mappings[i] = k THEN 1 ELSE 0]

C2_FirstHeldKeyWins == [][C2_Step]_vars

\* Keys 4 and Q (keypad C and 4) were held together: V[x] took C, the first
\* in the enumeration, and key 4 is recorded as held too.
C2_Witness ==
    /\ run_pc = "cycle"
    /\ IsKeyWait(opcode)
    /\ ~waiting_for_key
    /\ keys = {4, 5}
    /\ V[key_register] = 12
    /\ keypad[4] = 1
    /\ keypad[12] = 1

\* C3: waiting_for_key becomes false only in a refresh that reports a held
\* key; while it stays true V and key_register do not change, whatever the
\* number of cycles and of refreshes without a key; and once a refresh has
\* seen a key, the next cycle runs.
C3_Step ==
    /\ (waiting_for_key /\ ~waiting_for_key') => (run_pc = "input" /\ keys' # {})
    /\ (waiting_for_key /\ waiting_for_key')
          => (V' = V /\ key_register' = key_register /\ pc' = pc)

C3_Resumes ==
    (run_pc = "cycle" /\ ~waiting_for_key /\ IsKeyWait(opcode)) ~> (run_pc # "cycle")

C3_NoCancelNoTimeout == [][C3_Step]_vars /\ C3_Resumes

\* A refresh that saw no key has left the machine suspended.
C3_Witness ==
    /\ run_pc = "cycle"
    /\ waiting_for_key
    /\ keys = {}
    /\ IsKeyWait(opcode)
    /\ key_register = 1
    /\ V[0] \in 1..15

\* C5: both timers are in 0..255 in every reachable state.
C5_TimersInRange ==
    /\ delay_timer \in 0..255
    /\ sound_timer \in 0..255

\* Both timers were set to 1, have been decremented to 0 and stay there
\* while the program loops.
C5_Witness ==
    /\ opcode = \H1206
    /\ FetchAt(memory, \H204) = \HF015
    /\ V[0] = 1
    /\ delay_timer = 0
    /\ sound_timer = 0

\* The machine is about to fetch and execute the instruction at pc.
AtFetch == run_pc = "cycle" /\ ~waiting_for_key /\ pc + 1 < MemSize /\ Len(stack) <= MaxStack

AtDraw == AtFetch /\ IsDraw(FetchAt(memory, pc))

\* The start coordinates, the number of sprite rows that fall on the screen
\* and the number of sprite columns that do, for the Dxyn d in registers v.
X0(v, d) == v[Op_x(d)] % Cols
Y0(v, d) == v[Op_y(d)] % Rows
RowsOnScreen(v, d) == IF Y0(v, d) + Op_n(d) <= Rows THEN Op_n(d) ELSE Rows - Y0(v, d)
ColsOnScreen(v, d) == IF X0(v, d) + 8 <= Cols THEN 8 ELSE Cols - X0(v, d)
BitOf(byte, c) == (byte \div (2 ^ (7 - c))) % 2

\* The state after the Dxyn at pc, and after the same Dxyn once more.
Drawn1 == execute_opcode([Self EXCEPT !.pc = pc + 2, !.opcode = FetchAt(memory, pc)],
                         FetchAt(memory, pc))
Drawn2 == execute_opcode(Drawn1, FetchAt(memory, pc))

\* Both draws complete and start at the same coordinates.
SameDrawTwice ==
    /\ AtDraw
    /\ Drawn1.error = "none"
    /\ Drawn2.error = "none"
    /\ X0(Drawn1.V, FetchAt(memory, pc)) = X0(V, FetchAt(memory, pc))
    /\ Y0(Drawn1.V, FetchAt(memory, pc)) = Y0(V, FetchAt(memory, pc))

\* C6: drawing the sprite of the Dxyn at pc twice in succession at the same
\* start coordinates leaves every pixel of the display as it was.
C6_DoubleDrawRestores == SameDrawTwice => Drawn2.display = display

\* Sprite FF 81 7E 00 00 was drawn twice at (2, 0), over the glyph at the
\* origin: the glyph alone is left.
C6_Witness ==
    /\ run_pc = "input"
    /\ pc = \H20E
    /\ opcode = \HD015
    /\ FetchAt(memory, \H20A) = \HD015
    /\ I = \H210
    /\ V[0] = 2
    /\ V[1] = 0
    /\ display[0][2] = 1
    /\ display[0][5] = 0
    /\ display[1][3] = 1

\* Some set bit of the sprite of the Dxyn d falls, inside the clipped
\* rectangle, on a pixel that is 0.
SpriteBitOnDarkPixel(v, d) ==
    \E r \in 0..(RowsOnScreen(v, d) - 1), c \in 0..(ColsOnScreen(v, d) - 1) :
        /\ BitOf(memory[I + r], c) = 1
        /\ display[Y0(v, d) + r][X0(v, d) + c] = 0

\* C7 as stated: the second of two identical draws always ends with VF = 1.
C7_SecondDrawAlwaysCollides == SameDrawTwice => Drawn2.V[15] = 1

\* C7, amended: the second of two identical draws ends with VF = 1 when some
\* set bit of the sprite, inside the clipped rectangle, fell on a pixel that
\* was 0 before the first draw, and with VF = 0 when none did (n = 0, sprite
\* bytes that are all 0, or a sprite drawn exactly over lit pixels).
C7_SecondDrawCollidesIffLit ==
    SameDrawTwice =>
        Drawn2.V[15] = IF SpriteBitOnDarkPixel(V, FetchAt(memory, pc)) THEN 1 ELSE 0

\* The sprite FF 81 was drawn twice at (60, 30): the second draw collided.
C7_Witness ==
    /\ run_pc = "input"
    /\ pc = \H20E
    /\ opcode = \HD012
    /\ FetchAt(memory, \H20A) = \HD012
    /\ I = \H210
    /\ V[0] = 124
    /\ V[1] = 30
    /\ V[15] = 1
    /\ display[30][60] = 0

\* C8: a Dxyn changes no pixel outside rows y0..min(y0+n,32)-1 and columns
\* x0..min(x0+8,64)-1, and reads only the sprite rows that fall on the
\* screen: it fails exactly when one of those lies beyond the memory.
C8_Step ==
    AtDraw =>
        LET d == FetchAt(memory, pc)
            x0 == X0(V, d)
            y0 == Y0(V, d)
            h == RowsOnScreen(V, d)
            w == ColsOnScreen(V, d)
        IN  /\ \A r \in 0..(Rows - 1), c \in 0..(Cols - 1) :
                  (r < y0 \/ r >= y0 + h \/ c < x0 \/ c >= x0 + w)
                     => display'[r][c] = display[r][c]
            /\ (error' = "IndexError") <=> (h > 0 /\ I + h - 1 >= MemSize)

C8_ClipsNeverWraps == [][C8_Step]_vars

\* The glyph at 0 was drawn with n = 4 at (60, 30): rows 0 and 1 only, and
\* nothing at the left or the top of the screen.
C8_Witness ==
    /\ run_pc = "input"
    /\ opcode = \HD014
    /\ V[0] = 60
    /\ V[1] = 30
    /\ I = 0
    /\ display[30][63] = 1
    /\ display[31][63] = 1
    /\ display[31][61] = 0
    /\ display[0][60] = 0
    /\ display[30][0] = 0

\* C9: a Dxyn that completes sets each pixel of the clipped rectangle to its
\* old value XOR the sprite bit, sets VF to 1 if a set sprite bit fell on a
\* pixel that was 1 and to 0 otherwise, and changes no other register; the
\* start coordinates are those of V before VF is reset.
C9_Step ==
    (AtDraw /\ error' = "none") =>
        LET d == FetchAt(memory, pc)
            x0 == X0(V, d)
            y0 == Y0(V, d)
            h == RowsOnScreen(V, d)
            w == ColsOnScreen(V, d)
        IN  /\ \A r \in 0..(h - 1), c \in 0..(w - 1) :
                  display'[y0 + r][x0 + c] =
                     (display[y0 + r][x0 + c] + BitOf(memory[I + r], c)) % 2
            /\ V'[15] = IF \E r \in 0..(h - 1), c \in 0..(w - 1) :
                               /\ BitOf(memory[I + r], c) = 1
                               /\ display[y0 + r][x0 + c] = 1
                        THEN 1 ELSE 0
            /\ \A k \in 0..14 : V'[k] = V[k]

C9_DrawXorsAndFlags == [][C9_Step]_vars

\* DF05 with VF = 5 has drawn the glyph at column 5, not at column 0.
C9_Witness ==
    /\ run_pc = "input"
    /\ opcode = \HDF05
    /\ pc = \H206
    /\ V[15] = 0
    /\ display[0][5] = 1
    /\ display[0][8] = 1
    /\ display[0][0] = 0

\* C10: 2nnn fetched at a pushes a + 2 and jumps to nnn, and a 00EE executed
\* right after it would undo it; 00EE pops the last address pushed into pc;
\* every address on the stack is the one that follows a 2nnn.
C10_Step ==
    /\ (AtFetch /\ IsCall(FetchAt(memory, pc)))
          => /\ stack' = Append(stack, pc + 2)
             /\ pc' = Op_nnn(FetchAt(memory, pc))
             /\ execute_opcode(Self', \H00EE).pc = pc + 2
             /\ execute_opcode(Self', \H00EE).stack = stack
    /\ (AtFetch /\ FetchAt(memory, pc) = \H00EE /\ error' = "none")
          => /\ pc' = stack[Len(stack)]
             /\ stack' = SubSeq(stack, 1, Len(stack) - 1)
    /\ \A i \in 1..Len(stack') : IsCall(FetchAt(memory', stack'[i] - 2))

C10_CallReturnLifo == [][C10_Step]_vars

\* The nested calls 2206 and 220A have both returned: the program is back
\* at 0x202 with an empty stack.
C10_Witness ==
    /\ run_pc = "input"
    /\ opcode = \H00EE
    /\ FetchAt(memory, \H206) = \H220A
    /\ pc = \H202
    /\ stack = << >>
    /\ V[0] = 1

\* The registers an instruction that only moves pc leaves alone.
FrameKept ==
    UNCHANGED << V, I, stack, memory, display, keypad, waiting_for_key, key_register >>

TimersDecremented ==
    /\ delay_timer' = DecTimers(Self).delay_timer
    /\ sound_timer' = DecTimers(Self).sound_timer

\* C11: a 00EE fetched with an empty stack fails: the error reaches the
\* caller and the run stops there, the stack is still empty, neither timer
\* is decremented, and V, I, memory, display, keypad and the suspension
\* state are unchanged.
C11_Step ==
    /\ (AtFetch /\ FetchAt(memory, pc) = \H00EE /\ stack = << >>)
          => /\ error' = "IndexError"
             /\ run_pc' = "crashed"
             /\ stack' = << >>
             /\ UNCHANGED << delay_timer, sound_timer >>
             /\ UNCHANGED << V, I, memory, display, keypad, waiting_for_key, key_register >>
    /\ run_pc = "crashed" => UNCHANGED vars

C11_ReturnOnEmptyStackFails == [][C11_Step]_vars

\* 60FF F015 F018 F107 00EE has stopped on its 00EE with both timers
\* still running.
C11_Witness ==
    /\ run_pc = "crashed"
    /\ error = "IndexError"
    /\ opcode = \H00EE
    /\ stack = << >>
    /\ delay_timer = 252
    /\ sound_timer = 253
    /\ V[1] = 253

\* An opcode that no branch of execute_opcode handles.
IsUnhandled(op) ==
    \/ Op_top(op) \in { \H4, \H5, \H8, \H9, \HB, \HC }
    \/ Op_top(op) = \H0 /\ op \notin { \H00E0, \H00EE }
    \/ Op_top(op) = \HE /\ Op_nn(op) \notin { \H9E, \HA1 }
    \/ Op_top(op) = \HF /\ Op_nn(op) \notin { \H07, \H0A, \H15, \H18 }

\* C12: a cycle that fetches an opcode outside the table raises no error,
\* advances pc by 2, decrements the timers as every cycle does, and leaves
\* V, I, the stack, memory, display, keypad, waiting_for_key and
\* key_register unchanged.
C12_Step ==
    (AtFetch /\ IsUnhandled(FetchAt(memory, pc)))
       => /\ error' = "none"
          /\ pc' = pc + 2
          /\ TimersDecremented
          /\ FrameKept

C12_UnhandledOpcodeIsNoOp == [][C12_Step]_vars

\* 6009 F015 F018 8014 F01E ...: the F01E has run with V0 = 9 and I is
\* still 0, with both timers counting down.
C12_Witness ==
    /\ run_pc = "input"
    /\ opcode = \HF01E
    /\ pc = \H20A
    /\ V[0] = 9
    /\ I = 0
    /\ delay_timer = 5
    /\ sound_timer = 6

Is3xnn(op) == Op_top(op) = \H3
IsEx9E(op) == Op_top(op) = \HE /\ Op_nn(op) = \H9E
IsExA1(op) == Op_top(op) = \HE /\ Op_nn(op) = \HA1

\* C13: 3xnn moves pc by 4 if V[x] = nn and by 2 otherwise; with V[x] in
\* 0..15, Ex9E moves pc by 4 iff key V[x] is held and ExA1 iff it is not,
\* so that in any state exactly one of Ex9E and ExA1 on the same x skips;
\* none of them changes anything else but the per-cycle timer decrement.
C13_Step ==
    LET op == FetchAt(memory, pc)
        x  == Op_x(op)
        e9 == \HE09E + 256 * x
        ea == \HE0A1 + 256 * x
    IN  /\ (AtFetch /\ Is3xnn(op))
              => /\ pc' = pc + (IF V[x] = Op_nn(op) THEN 4 ELSE 2)
                 /\ error' = "none" /\ TimersDecremented /\ FrameKept
        /\ (AtFetch /\ IsEx9E(op) /\ V[x] < NumKeys)
              => /\ pc' = pc + (IF keypad[V[x]] # 0 THEN 4 ELSE 2)
                 /\ error' = "none" /\ TimersDecremented /\ FrameKept
        /\ (AtFetch /\ IsExA1(op) /\ V[x] < NumKeys)
              => /\ pc' = pc + (IF keypad[V[x]] = 0 THEN 4 ELSE 2)
                 /\ error' = "none" /\ TimersDecremented /\ FrameKept
        /\ (AtFetch /\ (IsEx9E(op) \/ IsExA1(op)) /\ V[x] < NumKeys)
              => { execute_opcode([Self EXCEPT !.pc = pc + 2], e9).pc,
                   execute_opcode([Self EXCEPT !.pc = pc + 2], ea).pc }
                    = { pc + 2, pc + 4 }

C13_ConditionalSkips == [][C13_Step]_vars

\* 6109 F115 F118 6004 E09E 7201 E0A1 ...: with key 4 held the E09E at
\* 0x208 has skipped the 7201 behind it, timers running.
C13_Witness ==
    /\ run_pc = "input"
    /\ opcode = \HE09E
    /\ pc = \H20C
    /\ V[0] = 4
    /\ keypad[4] = 1
    /\ V[2] = 0
    /\ delay_timer = 5
    /\ sound_timer = 6

IsJump(op) == Op_top(op) = \H1

\* C14 as stated: pc is even in every reachable state.
C14_PcAlwaysEven == pc % 2 = 0

\* pc and every return address on the stack are even.
Aligned == pc % 2 = 0 /\ \A i \in 1..Len(stack) : stack[i] % 2 = 0

\* C14: pc starts even at 0x200 and, with the return addresses on the
\* stack, stays even through every fetch, skip, call and return; the only
\* step that makes it odd is a 1nnn or 2nnn whose nnn is odd.
C14_Step ==
    (Aligned /\ ~Aligned')
       => /\ AtFetch
          /\ IsJump(FetchAt(memory, pc)) \/ IsCall(FetchAt(memory, pc))
          /\ Op_nnn(FetchAt(memory, pc)) % 2 = 1
          /\ pc' = Op_nnn(FetchAt(memory, pc))

C14_OnlyOddTargetsMisalign == Aligned /\ [][C14_Step]_vars

\* 1201 1212: the jump to 0x201 was taken and the word fetched at that odd
\* address, 0x0112, has been executed.
C14_Witness ==
    /\ run_pc = "input"
    /\ FetchAt(memory, \H200) = \H1201
    /\ opcode = \H0112
    /\ pc = \H203

PixelsBinary == \A y \in 0..(Rows - 1), x \in 0..(Cols - 1) : display[y][x] \in {0, 1}

\* C15: every pixel is 0 or 1; the display changes only in a cycle that
\* executes 00E0, which leaves every pixel 0, or a Dxyn, which changes only
\* pixels under a set sprite bit of the clipped rectangle and turns off
\* each of them that was lit, never setting it to the sprite bit.
C15_Step ==
    LET op == FetchAt(memory, pc)
        x0 == X0(V, op)
        y0 == Y0(V, op)
    IN  /\ PixelsBinary'
        /\ display' # display => AtFetch /\ (op = \H00E0 \/ IsDraw(op))
        /\ (AtFetch /\ op = \H00E0)
              => \A y \in 0..(Rows - 1), x \in 0..(Cols - 1) : display'[y][x] = 0
        /\ AtDraw
              => \A y \in 0..(Rows - 1), x \in 0..(Cols - 1) :
                    display'[y][x] # display[y][x]
                       => /\ y - y0 \in 0..(RowsOnScreen(V, op) - 1)
                          /\ x - x0 \in 0..(ColsOnScreen(V, op) - 1)
                          /\ BitOf(memory[I + (y - y0)], x - x0) = 1
        /\ (AtDraw /\ error' = "none")
              => \A r \in 0..(RowsOnScreen(V, op) - 1), c \in 0..(ColsOnScreen(V, op) - 1) :
                    (BitOf(memory[I + r], c) = 1 /\ display[y0 + r][x0 + c] = 1)
                       => display'[y0 + r][x0 + c] = 0

C15_PixelsBinaryXorOnly == PixelsBinary /\ [][C15_Step]_vars

\* A000 D005 00E0: the glyph drawn at the origin has been cleared.
C15_Witness ==
    /\ run_pc = "input"
    /\ FetchAt(memory, \H202) = \HD005
    /\ opcode = \H00E0
    /\ pc = \H206
    /\ I = 0
    /\ display[0][0] = 0
    /\ display[4][3] = 0

IsFx15(op) == Op_top(op) = \HF /\ Op_nn(op) = \H15
IsFx18(op) == Op_top(op) = \HF /\ Op_nn(op) = \H18
IsFx07(op) == Op_top(op) = \HF /\ Op_nn(op) = \H07

\* C16: a cycle that is not suspended and completes decrements each timer
\* once, after the instruction has acted: Fx15 (Fx18) with V[x] = v leaves
\* the delay (sound) timer at v - 1, or at 0 if v = 0; Fx07 stores the delay
\* timer as it was before the decrement of its own cycle; the cycle of Fx0A
\* decrements both timers, and the suspended cycles after it do not.
C16_Step ==
    LET op == FetchAt(memory, pc)
        x  == Op_x(op)
    IN  /\ (AtFetch /\ error' = "none")
              => /\ IsFx15(op) => delay_timer' = (IF V[x] > 0 THEN V[x] - 1 ELSE 0)
                 /\ ~IsFx15(op) => delay_timer' = DecTimers(Self).delay_timer
                 /\ IsFx18(op) => sound_timer' = (IF V[x] > 0 THEN V[x] - 1 ELSE 0)
                 /\ ~IsFx18(op) => sound_timer' = DecTimers(Self).sound_timer
                 /\ IsFx07(op) => V'[x] = delay_timer
                 /\ IsKeyWait(op) => waiting_for_key' /\ TimersDecremented
        /\ (run_pc = "cycle" /\ waiting_for_key /\ waiting_for_key')
              => UNCHANGED << delay_timer, sound_timer >>
        /\ run_pc # "cycle" => UNCHANGED << delay_timer, sound_timer >>

C16_TimersDecrementAfterEffect == [][C16_Step]_vars

\* 60FF F015 F018 F107 ...: F107 has read 253, the delay timer before its
\* own cycle took it to 252.
C16_Witness ==
    /\ run_pc = "input"
    /\ opcode = \HF107
    /\ V[0] = 255
    /\ V[1] = 253
    /\ delay_timer = 252
    /\ sound_timer = 253

\* Some row that the Dxyn at pc renders lies past the end of memory.
DrawOverrunsMemory ==
    /\ AtDraw
    /\ \E r \in 0..(RowsOnScreen(V, FetchAt(memory, pc)) - 1) : I + r >= MemSize

\* C17 as stated: a fetch with pc + 1 >= 4096 fails before pc or anything
\* else changes, and a Dxyn that renders a row r with I + r >= 4096 fails
\* leaving the display, V, I, the stack and the timers as they were.
C17_Step ==
    /\ (run_pc = "cycle" /\ ~waiting_for_key /\ pc + 1 >= MemSize)
          => /\ error' = "IndexError"
             /\ UNCHANGED << memory, V, I, pc, stack, delay_timer, sound_timer,
                             display, keypad, waiting_for_key, key_register >>
    /\ DrawOverrunsMemory
          => /\ error' = "IndexError"
             /\ memory' = memory
             /\ UNCHANGED << display, V, I, stack, delay_timer, sound_timer >>

C17_OutOfRangeFailsCleanly == [][C17_Step]_vars

IsLoad6xnn(op) == Op_top(op) = \H6
IsAdd7xnn(op) == Op_top(op) = \H7

RegistersInRange == \A k \in 0..(NumRegs - 1) : V[k] \in 0..255

\* C18: 7xnn sets V[x] to (V[x] + nn) mod 256 and changes no other
\* register, VF included; 6xnn sets V[x] to nn and changes no other
\* register; every V register is in 0..255 in every reachable state.
C18_Step ==
    LET op == FetchAt(memory, pc)
        x  == Op_x(op)
    IN  /\ (AtFetch /\ IsAdd7xnn(op))
              => V' = [V EXCEPT ![x] = (V[x] + Op_nn(op)) % 256]
        /\ (AtFetch /\ IsLoad6xnn(op))
              => V' = [V EXCEPT ![x] = Op_nn(op)]
        /\ RegistersInRange'

C18_AddWrapsNoCarry == RegistersInRange /\ [][C18_Step]_vars

\* 60FF 7001: V0 has wrapped from 255 to 0 and VF is still 0.
C18_Witness ==
    /\ run_pc = "input"
    /\ FetchAt(memory, \H200) = \H60FF
    /\ opcode = \H7001
    /\ pc = \H204
    /\ V[0] = 0
    /\ V[15] = 0

FontIntact == \A a \in 0..(Len(fontset) - 1) : memory[a] = fontset[a + 1]

\* C19: once the ROM is loaded no cycle and no input refresh writes
\* memory, so memory stays what it was right after the load, and the font
\* bytes at 0x000-0x04F are intact in every reachable state.
C19_Step ==
    /\ run_pc # "load" => memory' = memory
    /\ FontIntact'

C19_MemoryReadOnly == FontIntact /\ [][C19_Step]_vars

\* The F055 of 0123 4005 ... F033 F055 F01E has run with I = 0 and the
\* first font byte is still 0xF0.
C19_Witness ==
    /\ run_pc = "input"
    /\ FetchAt(memory, \H212) = \HF055
    /\ opcode = \HF055
    /\ pc = \H214
    /\ I = 0
    /\ memory[0] = \HF0

\* The instruction at pc is one that fails in the current state.
FailsInExecution ==
    LET op == FetchAt(memory, pc)
    IN  /\ AtFetch
        /\ \/ op = \H00EE /\ stack = << >>
           \/ (IsEx9E(op) \/ IsExA1(op)) /\ V[Op_x(op)] >= NumKeys
           \/ DrawOverrunsMemory

\* C20: Ex9E and ExA1 with V[x] >= 16 fail with an index error; a cycle
\* fails in execution exactly on 00EE with an empty stack, on Ex9E/ExA1
\* with V[x] >= 16 and on a Dxyn that reads at I + r >= 4096, and in each
\* such cycle pc has been advanced by 2 and neither timer is decremented.
C20_Step ==
    /\ FailsInExecution
          => /\ error' = "IndexError"
             /\ run_pc' = "crashed"
             /\ pc' = pc + 2
             /\ UNCHANGED << delay_timer, sound_timer >>
    /\ (AtFetch /\ error' # "none") => FailsInExecution

C20_FailingCycleNotAtomic == [][C20_Step]_vars

\* 6010 F015 E09E: the E09E at 0x204 has failed on V0 = 16 with pc moved
\* to 0x206 and the delay timer still at 15.
C20_Witness ==
    /\ run_pc = "crashed"
    /\ error = "IndexError"
    /\ opcode = \HE09E
    /\ pc = \H206
    /\ V[0] = 16
    /\ delay_timer = 15

=============================================================================
